---- MODULE Spec2Model ----
(***************************************************************************)
(* Model of the Metal Archives metadata adapter (metalarchives.py).        *)
(*                                                                         *)
(* Identifiers are Python strings, modelled as sequences of one-character  *)
(* strings so that slicing (id[:n], id[n:]) is computed, not assumed.      *)
(* Lyrics texts, titles and names are only compared for equality and       *)
(* truthiness and are modelled as TLA+ strings.  String distances are the  *)
(* host's string_dist results, in hundredths (0.1 is 10).                  *)
(*                                                                         *)
(* Every entry point of the plugin is one action.  The answers of the      *)
(* external client (metallum) are inputs of the action: each call either   *)
(* returns a value or raises.  The state records the last invocation: its  *)
(* arguments, the external calls it made (in order), what it returned or   *)
(* raised, and the track before and after.                                 *)
(***************************************************************************)
EXTENDS Integers, Sequences, FiniteSets

\* ------------------------------------------------------------------ bounds
MaxIdLen == 4
MaxResults == 2
MaxTracks == 2

\* --------------------------------------------------------------- constants
DATA_SOURCE == "Metal Archives"
ID_PREFIX == <<"m", "a", "-">>
INSTRUMENTAL == "(<em>Instrumental</em>)"
\* dist > 0.1 rejects a candidate; distances are in hundredths
THRESHOLD == 10

\* exceptions of the external client
NetworkError == "NetworkError"
NoResultsError == "NoResultsError"

\* ------------------------------------------------------- python primitives
Min(a, b) == IF a < b THEN a ELSE b

\* s[:n]
SliceTo(s, n) == SubSeq(s, 1, Min(n, Len(s)))

\* s[n:]
SliceFrom(s, n) == IF n >= Len(s) THEN <<>> ELSE SubSeq(s, n + 1, Len(s))

\* str(id): the ids the client gives (album.id, track.id, band.id) are
\* already strings, and str of a string is that string
Str(id) == id

\* ------------------------------------------------------------ id prefixing
AddPrefix(id) == ID_PREFIX \o Str(id)

\* faulty variant: cuts one character less than the prefix
StripPrefix_short(id) == SliceFrom(id, Len(ID_PREFIX) - 1)

StripPrefix(id) == SliceFrom(id, Len(ID_PREFIX))

\* faulty variant: compares all but the last character of the prefix
IsSourceId_loose(id) == SliceTo(id, Len(ID_PREFIX) - 1) = SliceTo(ID_PREFIX, Len(ID_PREFIX) - 1)

IsSourceId(id) == SliceTo(id, Len(ID_PREFIX)) = ID_PREFIX

\* ------------------------------------------------------------------ inputs
Chars == {"m", "a", "-", "1"}

RECURSIVE SeqsUpTo(_, _)
SeqsUpTo(S, n) ==
    IF n = 0 THEN {<<>>}
    ELSE LET shorter == SeqsUpTo(S, n - 1)
         IN  shorter \cup {Append(s, x) : s \in {t \in shorter : Len(t) = n - 1}, x \in S}

\* identifier strings handed to the prefix functions and to album_for_id
Ids == SeqsUpTo(Chars, MaxIdLen)

\* ids as the external service gives them
ExtIds == {<<"1">>, <<"1", "1">>}

\* ------------------------------------------------- external album objects
\* country names the country table knows, with their alpha2 code
CountryTable == [c \in {"United States"} |-> "US"]

\* a metallum track as the mapping reads it
ExtTracks == [id : {<<"1">>}, title : {"Battery"}, number : {1}]

\* a metallum album as the mapping reads it
Albums ==
    [id : ExtIds, band_id : {<<"1">>}, title : {"Master of Puppets"},
     country : {"United States", "Narnia"},
     tracks : {<<>>} \cup {<<t>> : t \in ExtTracks}]

DefaultAlbum == CHOOSE a \in Albums : TRUE

\* a result handle of album_search as get_albums uses it: get() raises or
\* gives the album
SearchHandles ==
    {[exc |-> "none", album |-> a] : a \in Albums}
        \cup {[exc |-> NetworkError, album |-> DefaultAlbum]}

\* --------------------------------------------------------- record mapping
GetTrackInfo(track) ==
    [title |-> track.title,
     track_id |-> AddPrefix(track.id),
     index |-> track.number]

GetTracks(tracklist) == [i \in 1..Len(tracklist) |-> GetTrackInfo(tracklist[i])]

CountryCode(name) == IF name \in DOMAIN CountryTable THEN CountryTable[name] ELSE ""

GetAlbumInfo(album) ==
    [album |-> album.title,
     album_id |-> AddPrefix(album.id),
     artist_id |-> AddPrefix(album.band_id),
     tracks |-> GetTracks(album.tracks),
     va |-> FALSE,
     country |-> CountryCode(album.country),
     data_source |-> DATA_SOURCE]

\* ------------------------------------------------------- return values
RetNone == [kind |-> "None", val |-> <<>>]
RetList(l) == [kind |-> "list", val |-> l]
RetValue(v) == [kind |-> "value", val |-> v]
Raise(e) == [kind |-> "raise", val |-> e]

Call(fn, a) == [fn |-> fn, arg |-> a]

\* -------------------------------------------------------------- get_albums
\* the loop over the search results, from result i on; albums and calls are
\* what the iterations before i have built
\* faulty variant: a fault ends the loop (break for continue)
RECURSIVE ResolveLoop_break(_, _, _, _)
ResolveLoop_break(results, i, albums, calls) ==
    IF i > Len(results) THEN [albums |-> albums, calls |-> calls]
    ELSE LET called == Append(calls, Call("get", <<i>>))
         IN  IF results[i].exc = NetworkError
             THEN [albums |-> albums, calls |-> called]
             ELSE ResolveLoop_break(results, i + 1,
                      Append(albums, GetAlbumInfo(results[i].album)), called)

RECURSIVE ResolveLoop(_, _, _, _)
ResolveLoop(results, i, albums, calls) ==
    IF i > Len(results) THEN [albums |-> albums, calls |-> calls]
    ELSE LET called == Append(calls, Call("get", <<i>>))
         IN  IF results[i].exc = NetworkError
             THEN ResolveLoop(results, i + 1, albums, called)
             ELSE ResolveLoop(results, i + 1,
                      Append(albums, GetAlbumInfo(results[i].album)), called)

\* search is what album_search did: [exc, results]
GetAlbums(artist, album, search) ==
    LET called == <<Call("album_search", <<album, artist>>)>>
    IN  IF search.exc = NetworkError THEN [ret |-> RetNone, calls |-> called]
        ELSE IF search.exc # "none" THEN [ret |-> Raise(search.exc), calls |-> called]
        ELSE LET l == ResolveLoop(search.results, 1, <<>>, called)
             IN  [ret |-> RetList(l.albums), calls |-> l.calls]

\* ------------------------------------------------------------ album_for_id
\* lookup is what metallum.album_for_id did: [exc, album]
AlbumForId(album_id, lookup) ==
    IF ~IsSourceId(album_id) THEN [ret |-> RetNone, calls |-> <<>>]
    ELSE LET called == <<Call("album_for_id", StripPrefix(album_id))>>
         IN  IF lookup.exc = NetworkError THEN [ret |-> RetNone, calls |-> called]
             ELSE [ret |-> RetValue(GetAlbumInfo(lookup.album)), calls |-> called]

\* ------------------------------------------------------- fetch_item_lyrics
LyricsTexts == {"", "la la", "na na", INSTRUMENTAL}

\* string_dist(item.title, track.title), in hundredths
DistVals == {5, 10, 20}

\* what reading lyrics gave: a text, or NetworkError raised
LyricsAnswers ==
    {[exc |-> "none", text |-> t] : t \in LyricsTexts}
        \cup {[exc |-> NetworkError, text |-> ""]}

NoAnswer == [exc |-> "none", text |-> ""]

\* a result handle of album_search as fetch_item_lyrics uses it: get() raises,
\* or gives an album with ntracks tracks; dist and lyr are the title distance
\* and the lyrics of its track at the item's position (the only track read)
LyricsHandles ==
    [exc : {"none"}, ntracks : {1, MaxTracks}, dist : DistVals, lyr : LyricsAnswers]
        \cup {[exc |-> NetworkError, ntracks |-> 0, dist |-> 0, lyr |-> NoAnswer]}

\* the tracks the host hands over: matched from this source (the album id is
\* prefixed), or from another one
Items ==
    [lyrics : {"", "old words"},
     mb_albumid : {AddPrefix(<<"1">>)},
     mb_trackid : {AddPrefix(<<"1", "1">>), <<"1", "1">>},
     album : {"Master of Puppets"}, artist : {"Metallica"},
     track : 1..MaxTracks]
    \cup
    [lyrics : {"", "old words"},
     mb_albumid : {<<"1">>},
     mb_trackid : {<<"1", "1">>},
     album : {"Master of Puppets"}, artist : {"Metallica"},
     track : 1..MaxTracks]

Configs == [lyrics_search : BOOLEAN, instrumental : {"", "[instrumental]"}, write : BOOLEAN]

\* Python truth of a text
Truthy(text) == text # ""

\* faulty variant: the guard is missing
HasLyrics_never(it) == FALSE

\* "if item.lyrics"
HasLyrics(it) == Truthy(it.lyrics)

\* faulty variant: the prefixed id is passed on
DirectTrackId_raw(it) == it.mb_trackid

\* the argument of lyrics_for_id
DirectTrackId(it) == StripPrefix(it.mb_trackid)

\* faulty variant: the marker is kept
Substitute_keep(text, c) == text

\* the instrumental marker is replaced by the configured string
Substitute(text, c) == IF text = INSTRUMENTAL THEN c.instrumental ELSE text

\* how an invocation ends: outcome, the exception that escaped (or "none"),
\* the text the lookup left in the local lyrics, the track, the calls made,
\* try_write and store counts
End(outcome, exc, text, it, calls, writes, stores) ==
    [outcome |-> outcome, exc |-> exc, obtained |-> text, item |-> it,
     calls |-> calls, writes |-> writes, stores |-> stores]

\* "if lyrics: ... else: ..." after the lookup
Finish(it, c, text, calls) ==
    IF Truthy(text)
    THEN End("found", "none", text,
             [it EXCEPT !.lyrics = Substitute(text, c)], calls,
             IF c.write THEN 1 ELSE 0, 1)
    ELSE End("not-found", "none", text, it, calls, 0, 0)

\* the loop over the candidates, from result i on; text is the local lyrics
\* so far.  status: "done" the loop ran out, "return" the handler returned,
\* "raise" an exception left the loop
RECURSIVE SearchLoop(_, _, _, _, _)
SearchLoop(results, i, it, text, calls) ==
    IF i > Len(results) THEN [status |-> "done", lyrics |-> text, calls |-> calls]
    ELSE LET r == results[i]
             got == Append(calls, Call("get", <<i>>))
             read == Append(got, Call("track.lyrics", <<i>>))
         IN  IF r.exc # "none"
             THEN [status |-> "raise", lyrics |-> text, calls |-> got]
             ELSE IF r.ntracks >= it.track
             THEN IF r.dist > THRESHOLD
                  THEN SearchLoop(results, i + 1, it, text, got)
                  ELSE IF r.lyr.exc = NetworkError
                       THEN [status |-> "return", lyrics |-> text, calls |-> read]
                       ELSE SearchLoop(results, i + 1, it, r.lyr.text, read)
             ELSE SearchLoop(results, i + 1, it, text, got)

\* e is what the external client did: direct (lyrics_for_id), search
\* (album_search: [exc, results])
FetchItemLyrics(it, c, e) ==
    IF HasLyrics(it) THEN End("skipped", "none", "", it, <<>>, 0, 0)
    ELSE IF IsSourceId(it.mb_albumid)
    THEN LET called == <<Call("lyrics_for_id", DirectTrackId(it))>>
         IN  IF e.direct.exc = NetworkError
             THEN End("network-error", "none", "", it, called, 0, 0)
             ELSE Finish(it, c, e.direct.text, called)
    ELSE IF c.lyrics_search
    THEN LET called == <<Call("album_search", <<it.album, it.artist>>)>>
         IN  IF e.search.exc = NetworkError
             THEN End("network-error", "none", "", it, called, 0, 0)
             ELSE IF e.search.exc # "none"
             THEN End("raised", e.search.exc, "", it, called, 0, 0)
             ELSE LET l == SearchLoop(e.search.results, 1, it, "", called)
                  IN  CASE l.status = "raise" ->
                             End("raised", NetworkError, l.lyrics, it, l.calls, 0, 0)
                        [] l.status = "return" ->
                             End("network-error", "none", l.lyrics, it, l.calls, 0, 0)
                        [] OTHER -> Finish(it, c, l.lyrics, l.calls)
    ELSE End("no-op", "none", "", it, <<>>, 0, 0)

\* ------------------------------------------------------------------- state
VARIABLES
    op,        \* the entry point last invoked
    arg,       \* its identifier argument (prefix functions, album_for_id)
    orig,      \* the id whose prefixed form arg is, when arg came from _add_prefix
    query,     \* [artist, album] of a search
    item0,     \* the track handed to fetch_item_lyrics
    cfg,       \* the configuration in force
    env,       \* what the external client answered
    ret,       \* what the entry point returned or raised
    calls,     \* the external calls it made, in order
    item,      \* the track afterwards
    obtained,  \* the text the lookup left in the local lyrics
    outcome,   \* how fetch_item_lyrics ended
    writes,    \* item.try_write() calls
    stores     \* item.store() calls

vars == <<op, arg, orig, query, item0, cfg, env, ret, calls, item, obtained,
          outcome, writes, stores>>

NoOrig == [chained |-> FALSE, id |-> <<>>]
NoQuery == [artist |-> "", album |-> ""]
NoLookup == [exc |-> "none", album |-> DefaultAlbum]
NoSearch == [exc |-> "none", results |-> <<>>]
NoEnv == [lookup |-> NoLookup, search |-> NoSearch, direct |-> NoAnswer]
DefaultItem == CHOOSE it \in Items : TRUE
DefaultConfig == [lyrics_search |-> FALSE, instrumental |-> "", write |-> FALSE]

Init ==
    /\ op = "init"
    /\ arg = <<>>
    /\ orig = NoOrig
    /\ query = NoQuery
    /\ item0 = DefaultItem
    /\ cfg = DefaultConfig
    /\ env = NoEnv
    /\ ret = RetNone
    /\ calls = <<>>
    /\ item = DefaultItem
    /\ obtained = ""
    /\ outcome = "none"
    /\ writes = 0
    /\ stores = 0

\* what a call of one of the three prefix functions leaves
PrefixCall(name, id, from, result) ==
    /\ op' = name
    /\ arg' = id
    /\ orig' = from
    /\ ret' = RetValue(result)
    /\ calls' = <<>>
    /\ query' = NoQuery
    /\ env' = NoEnv
    /\ outcome' = "none"
    /\ obtained' = ""
    /\ writes' = 0
    /\ stores' = 0
    /\ item0' = DefaultItem
    /\ item' = DefaultItem
    /\ cfg' = DefaultConfig

\* the host is idle: the adapter is synchronous, one entry point runs at a time
Idle == op = "init"

AddPrefixCall ==
    /\ Idle
    /\ \E x \in Ids : PrefixCall("_add_prefix", x, NoOrig, AddPrefix(x))

\* on any identifier, or on what _add_prefix has just returned
StripPrefixCall ==
    \/ /\ Idle
       /\ \E id \in Ids : PrefixCall("_strip_prefix", id, NoOrig, StripPrefix(id))
    \/ /\ op = "_add_prefix"
       /\ PrefixCall("_strip_prefix", ret.val, [chained |-> TRUE, id |-> arg],
                     StripPrefix(ret.val))

IsSourceIdCall ==
    \/ /\ Idle
       /\ \E id \in Ids : PrefixCall("_is_source_id", id, NoOrig, IsSourceId(id))
    \/ /\ op = "_add_prefix"
       /\ PrefixCall("_is_source_id", ret.val, [chained |-> TRUE, id |-> arg],
                     IsSourceId(ret.val))

\* the answers album_for_id can meet: none is asked for an id of another source
LookupsFor(id) ==
    IF IsSourceId(id)
    THEN {[exc |-> "none", album |-> a] : a \in Albums}
             \cup {[exc |-> NetworkError, album |-> DefaultAlbum]}
    ELSE {NoLookup}

AlbumForIdCall ==
    /\ Idle
    /\ \E id \in Ids : \E lookup \in LookupsFor(id) :
           LET r == AlbumForId(id, lookup)
           IN  /\ op' = "album_for_id"
               /\ arg' = id
               /\ env' = [NoEnv EXCEPT !.lookup = lookup]
               /\ ret' = r.ret
               /\ calls' = r.calls
               /\ orig' = NoOrig
               /\ query' = NoQuery
               /\ outcome' = "none"
               /\ obtained' = ""
               /\ writes' = 0
               /\ stores' = 0
               /\ item0' = DefaultItem
               /\ item' = DefaultItem
               /\ cfg' = DefaultConfig

\* the answers album_search can give
SearchExcs == {"none", NetworkError, NoResultsError}

SearchesOver(handles) ==
    {[exc |-> "none", results |-> rs] : rs \in SeqsUpTo(handles, MaxResults)}
        \cup {[exc |-> x, results |-> <<>>] : x \in SearchExcs \ {"none"}}

Queries == [artist : {"", "Metallica"}, album : {"Master of Puppets"}]

\* candidates(items, artist, album, va_likely) is get_albums(artist, album)
CandidatesCall ==
    /\ Idle
    /\ \E q \in Queries : \E search \in SearchesOver(SearchHandles) :
           LET r == GetAlbums(q.artist, q.album, search)
           IN  /\ op' = "candidates"
               /\ query' = q
               /\ env' = [NoEnv EXCEPT !.search = search]
               /\ ret' = r.ret
               /\ calls' = r.calls
               /\ arg' = <<>>
               /\ orig' = NoOrig
               /\ outcome' = "none"
               /\ obtained' = ""
               /\ writes' = 0
               /\ stores' = 0
               /\ item0' = DefaultItem
               /\ item' = DefaultItem
               /\ cfg' = DefaultConfig

\* the answers fetch_item_lyrics can meet for this track and configuration:
\* only the call its branch makes is answered
EnvsFor(it, c) ==
    IF HasLyrics(it) THEN {NoEnv}
    ELSE IF IsSourceId(it.mb_albumid)
    THEN {[NoEnv EXCEPT !.direct = a] : a \in LyricsAnswers}
    ELSE IF c.lyrics_search
    THEN {[NoEnv EXCEPT !.search = s] : s \in SearchesOver(LyricsHandles)}
    ELSE {NoEnv}

FetchItemLyricsCall ==
    /\ Idle
    /\ \E it \in Items, c \in Configs : \E e \in EnvsFor(it, c) :
           LET r == FetchItemLyrics(it, c, e)
           IN  /\ op' = "fetch_item_lyrics"
               /\ item0' = it
               /\ cfg' = c
               /\ env' = e
               /\ ret' = IF r.exc = "none" THEN RetNone ELSE Raise(r.exc)
               /\ calls' = r.calls
               /\ item' = r.item
               /\ obtained' = r.obtained
               /\ outcome' = r.outcome
               /\ writes' = r.writes
               /\ stores' = r.stores
               /\ arg' = <<>>
               /\ orig' = NoOrig
               /\ query' = NoQuery

\* the entry point has returned (or raised) and the host goes on
HostReturn ==
    /\ ~Idle
    /\ op' = "init"
    /\ arg' = <<>>
    /\ orig' = NoOrig
    /\ query' = NoQuery
    /\ item0' = DefaultItem
    /\ cfg' = DefaultConfig
    /\ env' = NoEnv
    /\ ret' = RetNone
    /\ calls' = <<>>
    /\ item' = DefaultItem
    /\ obtained' = ""
    /\ outcome' = "none"
    /\ writes' = 0
    /\ stores' = 0

Next ==
    \/ AddPrefixCall
    \/ StripPrefixCall
    \/ IsSourceIdCall
    \/ AlbumForIdCall
    \/ CandidatesCall
    \/ FetchItemLyricsCall
    \/ HostReturn

Spec == Init /\ [][Next]_vars

\* ------------------------------------------------------ property helpers
\* the identifier begins with the literal tag, character by character
StartsWithPrefix(id) ==
    /\ Len(id) >= 3
    /\ id[1] = "m"
    /\ id[2] = "a"
    /\ id[3] = "-"

IsFetch == op = "fetch_item_lyrics"

IsSearch == op = "candidates"

EmptyList == ret.kind = "list" /\ Len(ret.val) = 0

\* the fallback search ran and its album_search succeeded
FallbackRan ==
    /\ IsFetch
    /\ item0.lyrics = ""
    /\ ~StartsWithPrefix(item0.mb_albumid)
    /\ cfg.lyrics_search
    /\ env.search.exc = "none"

\* candidate i has the track's position and a title within 0.1 of the track's
Qualifies(i) ==
    /\ env.search.results[i].exc = "none"
    /\ env.search.results[i].ntracks >= item0.track
    /\ env.search.results[i].dist <= 10

Qualifying == {i \in 1..Len(env.search.results) : Qualifies(i)}

FirstQualifying == CHOOSE i \in Qualifying : \A j \in Qualifying : i <= j

\* the handles that resolved, in result order, each mapped
ResolvedMapped ==
    LET ok(h) == h.exc = "none"
        kept == SelectSeq(env.search.results, ok)
    IN  [i \in 1..Len(kept) |-> GetAlbumInfo(kept[i].album)]

\* ------------------------------------------------------------------ claims

\* C1: when album_search raises a network fault, the search operation
\* returns an empty sequence and does not raise.
C1_NetworkFaultGivesEmptySequence ==
    (IsSearch /\ env.search.exc = NetworkError) => EmptyList

\* C2: when album_search fails with the zero-result fault, the search
\* operation returns an empty sequence and does not raise.
C2_NoResultsGivesEmptySequence ==
    (IsSearch /\ env.search.exc = NoResultsError) => EmptyList

\* C3: album_for_id on an identifier that does not begin with 'ma-' returns
\* None and makes no call to the external client.
C3_UnprefixedIdNotFoundNoCall ==
    (op = "album_for_id" /\ ~StartsWithPrefix(arg)) =>
        (ret.kind = "None" /\ Len(calls) = 0)

C3_Witness ==
    /\ op = "album_for_id"
    /\ ~StartsWithPrefix(arg)
    /\ Len(arg) = 3
    /\ arg[1] = "m"
    /\ arg[2] = "a"
    /\ ret.kind = "None"

\* C4: stripping the prefix from the prefixed form of x gives x, the prefixed
\* form of x is a source id, and an identifier that does not start with the
\* prefix is not a source id.
C4_PrefixRoundTrip ==
    /\ (op = "_strip_prefix" /\ orig.chained) => ret.val = orig.id
    /\ (op = "_is_source_id" /\ orig.chained) => ret.val = TRUE
    /\ (op = "_is_source_id" /\ ~StartsWithPrefix(arg)) => ret.val = FALSE

C4_Witness ==
    /\ op = "_strip_prefix"
    /\ orig.chained
    /\ StartsWithPrefix(orig.id)
    /\ Len(orig.id) > Len(ID_PREFIX)
    /\ ret.val = orig.id

\* C5: on a track that already has lyrics, fetch_item_lyrics makes no
\* external call, leaves the track as it was and neither writes nor stores.
C5_HasLyricsIsNoOp ==
    (IsFetch /\ item0.lyrics # "") =>
        /\ Len(calls) = 0
        /\ item = item0
        /\ writes = 0
        /\ stores = 0
        /\ ret.kind = "None"

C5_Witness ==
    /\ IsFetch
    /\ item0.lyrics # ""
    /\ StartsWithPrefix(item0.mb_albumid)
    /\ cfg.lyrics_search
    /\ cfg.write
    /\ outcome = "skipped"

\* C6: for a track without lyrics whose album id carries the prefix, exactly
\* one lyrics_for_id call is made, on the track id with the prefix stripped,
\* and album_search is never called, whatever lyrics_search is.
C6_SourceTrackDirectLookup ==
    (IsFetch /\ item0.lyrics = "" /\ StartsWithPrefix(item0.mb_albumid)) =>
        /\ Len(calls) = 1
        /\ calls[1].fn = "lyrics_for_id"
        /\ StartsWithPrefix(item0.mb_trackid) =>
               ID_PREFIX \o calls[1].arg = item0.mb_trackid

C6_Witness ==
    /\ IsFetch
    /\ item0.lyrics = ""
    /\ StartsWithPrefix(item0.mb_albumid)
    /\ StartsWithPrefix(item0.mb_trackid)
    /\ cfg.lyrics_search
    /\ Len(calls) = 1
    /\ calls[1].fn = "lyrics_for_id"
    /\ calls[1].arg = <<"1", "1">>

\* C7: when the text obtained is the instrumental marker, the lyrics stored
\* are the configured replacement and not the marker; any other non-empty
\* text obtained is stored unchanged.
C7_InstrumentalReplaced ==
    (IsFetch /\ outcome = "found") =>
        /\ obtained # ""
        /\ stores = 1
        /\ obtained = INSTRUMENTAL =>
               (item.lyrics = cfg.instrumental /\ item.lyrics # INSTRUMENTAL)
        /\ obtained # INSTRUMENTAL => item.lyrics = obtained

C7_Witness ==
    /\ IsFetch
    /\ outcome = "found"
    /\ obtained = INSTRUMENTAL
    /\ cfg.instrumental = "[instrumental]"
    /\ item.lyrics = "[instrumental]"
    /\ stores = 1

\* C8: in the fallback search the lyrics assigned are those of the first
\* candidate, in result order, with enough tracks and a title within 0.1;
\* later candidates are not used; with no such candidate nothing is assigned.
C8_FirstQualifyingCandidateWins ==
    (FallbackRan /\ outcome \in {"found", "not-found"}) =>
        IF Qualifying = {}
        THEN item.lyrics = item0.lyrics /\ stores = 0
        ELSE LET text == env.search.results[FirstQualifying].lyr.text
             IN  item.lyrics = (IF text = INSTRUMENTAL THEN cfg.instrumental ELSE text)

\* C9: a network fault of any external call in fetch_item_lyrics is caught:
\* the handler does not raise, and ends in the network-error outcome with
\* the track unchanged and nothing written or stored.
C9_NetworkFaultNeverEscapes ==
    IsFetch =>
        /\ ~(ret.kind = "raise" /\ ret.val = NetworkError)
        /\ outcome = "network-error" =>
               (item = item0 /\ writes = 0 /\ stores = 0)

\* C10: in the search operation a network fault while resolving one handle
\* skips only that handle: the result holds one mapped record per handle
\* that resolved, in result order, and every handle after a failing one is
\* still resolved.
C10_FaultSkipsOnlyThatHandle ==
    (IsSearch /\ env.search.exc = "none") =>
        /\ ret.kind = "list"
        /\ ret.val = ResolvedMapped
        /\ Len(calls) = 1 + Len(env.search.results)
        /\ \A i \in 1..Len(env.search.results) :
               calls[i + 1].fn = "get" /\ calls[i + 1].arg = <<i>>

C10_Witness ==
    /\ IsSearch
    /\ env.search.exc = "none"
    /\ Len(env.search.results) >= 2
    /\ env.search.results[1].exc = NetworkError
    /\ env.search.results[2].exc = "none"
    /\ Len(ret.val) = Len(env.search.results) - 1

====
